---- MODULE Spec2Model ----
(***************************************************************************)
(* Model of the course-content access layer:                               *)
(*   - GitHubService        (lib/github/github.ts, src/unnamed/part_000)   *)
(*   - GitHubFileSystem     (src/src/lib/github/fileSystem.ts)             *)
(*   - loadCourseStructure  (src/src/utils/contentLoader.ts)               *)
(* together with the remote repository the service talks to (one           *)
(* owner/repo/branch: an object store of commits and the branch ref) and   *)
(* another writer pushing to the same branch.                              *)
(***************************************************************************)
EXTENDS Integers, Sequences, FiniteSets, TLC

(***************************************************************************)
(* Bounds of the model.                                                    *)
(***************************************************************************)
\* commits the remote object store may hold
MaxCommits == 3

(***************************************************************************)
(* Text encodings.  A string is a sequence of code points, a binary string *)
(* a sequence of bytes, a base64 text a sequence of characters: 0..63 the  *)
(* alphabet, B64Pad '=' and B64Newline '\n'.                               *)
(***************************************************************************)
B64Pad == 64
B64Newline == 65

\* unescape(encodeURIComponent(c)): the UTF-8 bytes of one code point
Utf8EncodeChar(c) ==
    IF c < 128 THEN <<c>>
    ELSE IF c < 2048 THEN <<192 + (c \div 64), 128 + (c % 64)>>
    ELSE IF c < 65536
         THEN <<224 + (c \div 4096), 128 + ((c \div 64) % 64), 128 + (c % 64)>>
         ELSE <<240 + (c \div 262144), 128 + ((c \div 4096) % 64),
                128 + ((c \div 64) % 64), 128 + (c % 64)>>

RECURSIVE Utf8Encode(_)
Utf8Encode(s) ==
    IF s = <<>> THEN <<>> ELSE Utf8EncodeChar(Head(s)) \o Utf8Encode(Tail(s))

IsCont(b) == b >= 128 /\ b < 192

\* decodeURIComponent(escape(binary)): strict UTF-8 decoding; a malformed
\* sequence raises URIError (ok = FALSE)
RECURSIVE Utf8Decode(_)
Utf8Decode(b) ==
    IF b = <<>> THEN [ok |-> TRUE, str |-> <<>>]
    ELSE LET b1 == b[1]
             n  == IF b1 < 128 THEN 1
                   ELSE IF b1 >= 194 /\ b1 < 224 THEN 2
                   ELSE IF b1 >= 224 /\ b1 < 240 THEN 3
                   ELSE IF b1 >= 240 /\ b1 < 245 THEN 4
                   ELSE 0
         IN  IF n = 0 \/ Len(b) < n \/ \E i \in 2..n : ~IsCont(b[i])
             THEN [ok |-> FALSE, str |-> <<>>]
             ELSE LET c == IF n = 1 THEN b1
                           ELSE IF n = 2 THEN (b1 - 192) * 64 + (b[2] - 128)
                           ELSE IF n = 3
                                THEN (b1 - 224) * 4096 + (b[2] - 128) * 64 + (b[3] - 128)
                                ELSE (b1 - 240) * 262144 + (b[2] - 128) * 4096
                                     + (b[3] - 128) * 64 + (b[4] - 128)
                      good == /\ (n = 3 => c >= 2048 /\ ~(c >= 55296 /\ c < 57344))
                              /\ (n = 4 => c >= 65536 /\ c < 1114112)
                      rest == Utf8Decode(SubSeq(b, n + 1, Len(b)))
                  IN  IF good /\ rest.ok
                      THEN [ok |-> TRUE, str |-> <<c>> \o rest.str]
                      ELSE [ok |-> FALSE, str |-> <<>>]

\* btoa(binary): base64 of a byte string
RECURSIVE Btoa(_)
Btoa(b) ==
    IF b = <<>> THEN <<>>
    ELSE IF Len(b) = 1
         THEN <<b[1] \div 4, (b[1] % 4) * 16, B64Pad, B64Pad>>
    ELSE IF Len(b) = 2
         THEN <<b[1] \div 4, (b[1] % 4) * 16 + (b[2] \div 16), (b[2] % 16) * 4, B64Pad>>
    ELSE <<b[1] \div 4, (b[1] % 4) * 16 + (b[2] \div 16),
           (b[2] % 16) * 4 + (b[3] \div 64), b[3] % 64>>
         \o Btoa(SubSeq(b, 4, Len(b)))

\* data.content.replace(/\n/g, '')
StripNewlines(t) == SelectSeq(t, LAMBDA ch : ch # B64Newline)

RECURSIVE AtobBody(_)
AtobBody(t) ==
    IF Len(t) < 2 THEN <<>>
    ELSE IF Len(t) = 2 THEN <<t[1] * 4 + (t[2] \div 16)>>
    ELSE IF Len(t) = 3
         THEN <<t[1] * 4 + (t[2] \div 16), (t[2] % 16) * 16 + (t[3] \div 4)>>
    ELSE <<t[1] * 4 + (t[2] \div 16), (t[2] % 16) * 16 + (t[3] \div 4),
           (t[3] % 4) * 64 + t[4]>>
         \o AtobBody(SubSeq(t, 5, Len(t)))

\* atob(text): forgiving base64 decoding; throws (ok = FALSE) on a text that
\* is not base64
Atob(t) ==
    LET s == StripNewlines(t)
        n == Len(s)
        k == IF n % 4 = 0 /\ n >= 2 /\ s[n] = B64Pad
             THEN (IF s[n - 1] = B64Pad THEN 2 ELSE 1)
             ELSE 0
        u == SubSeq(s, 1, n - k)
    IN  IF Len(u) % 4 = 1 \/ \E i \in 1..Len(u) : u[i] >= B64Pad
        THEN [ok |-> FALSE, bytes |-> <<>>]
        ELSE [ok |-> TRUE, bytes |-> AtobBody(u)]


(***************************************************************************)
(* The remote repository (one owner/repo/branch).                          *)
(***************************************************************************)
\* paths a tree may hold a blob at; "docs" is a directory when a blob lies
\* under it, KeepPath is `${path}/.keep`
TreePaths == {"course.yaml", "docs/.keep"}
DirPaths == {"docs"}
Paths == TreePaths \cup DirPaths
KeepPath(p) == IF p = "docs" THEN "docs/.keep" ELSE p
ParentDir(p) == IF p = "docs/.keep" THEN "docs" ELSE ""

NoEntry == [kind |-> "none", bytes |-> <<>>]
Blob(b) == [kind |-> "blob", bytes |-> b]
EmptyTree == [p \in TreePaths |-> NoEntry]

NoSha == [defined |-> FALSE, of |-> <<>>]
\* the object hash of a blob: content-addressed, one hash per content
BlobSha(b) == [defined |-> TRUE, of |-> b]

Tokens == {"good", "bad"}
ValidTokens == {"good"}
RepoNames == {"course"}

\* strings the editor writes, raw bytes of an uploaded image, what the other
\* writer pushes
Contents == {<<228>>}
ImageBytes == {<<255>>}
OtherBlobs == {<<65>>}
InitTrees == {[EmptyTree EXCEPT !["course.yaml"] = Blob(<<195, 164>>)]}
\* the file the other writer works on
OtherPaths == {"course.yaml"}

VARIABLES
    commits,        \* remote object store: commits[i] = [parent, tree], i its hash
    branchRef,      \* remote: the commit the branch ref points at
    repos,          \* remote: repositories of the authenticated user
    octokit,        \* GitHubService.octokit: null or a client holding a token
    user,           \* GitHubService.user
    pc,             \* where the operation in flight stands ("idle": none)
    arg,            \* arguments of the operation in flight
    loc,            \* its local variables
    result,         \* how the last completed operation ended
    apiLog,         \* the remote API calls the last started operation issued
    authCalled,     \* history: authenticate was called
    authSucceeded,  \* history: some authenticate call returned a user
    lpc,            \* loadCourseStructure: position
    lfs,            \* loadCourseStructure: a file-system was passed
    bundled,        \* the bundled manifest embedded at build time (or none)
    lcontent,       \* loadCourseStructure: `content`
    ltrace,         \* calls loadCourseStructure made on the file-system
    lresult         \* what loadCourseStructure returned

ghVars == <<commits, branchRef, repos, octokit, user, pc, arg, loc, result,
            apiLog, authCalled, authSucceeded>>
loaderVars == <<lpc, lfs, bundled, lcontent, ltrace, lresult>>
vars == <<commits, branchRef, repos, octokit, user, pc, arg, loc, result,
          apiLog, authCalled, authSucceeded,
          lpc, lfs, bundled, lcontent, ltrace, lresult>>

NoClient == [set |-> FALSE, auth |-> ""]
Client(token) == [set |-> TRUE, auth |-> token]
NoUser == [set |-> FALSE, login |-> ""]
UserOf(token) == [set |-> TRUE, login |-> "author"]

TipTree == commits[branchRef].tree

IsFile(tree, p) == p \in TreePaths /\ tree[p].kind = "blob"
IsDir(tree, p) == \E q \in TreePaths : ParentDir(q) = p /\ tree[q].kind = "blob"

RECURSIVE IsAncestor(_, _)
\* commit a is c or reachable from c through parents
IsAncestor(a, c) ==
    IF c = 0 THEN FALSE
    ELSE IF a = c THEN TRUE
    ELSE IsAncestor(a, commits[c].parent)

\* A response of the remote: status 200 or an error status with its message
HttpError(st) == [status |-> st,
                  msg |-> IF st = 401 THEN "Bad credentials"
                          ELSE IF st = 404 THEN "Not Found"
                          ELSE IF st = 409 THEN "Conflict"
                          ELSE IF st = 422 THEN "Unprocessable"
                          ELSE "Server Error"]

Faults == {"none", "transport"}
\* what stops a request before the remote looks at the repository: a token
\* the remote rejects, or a failure of the transport
RequestFault(fault) ==
    IF octokit.auth \notin ValidTokens THEN 401
    ELSE IF fault = "transport" THEN 500
    ELSE 0

\* repos.getContent({path, ref: branch})
RemoteGetContent(path, fault) ==
    LET f == RequestFault(fault)
    IN  IF f # 0 THEN [status |-> f, kind |-> "error", sha |-> NoSha, content |-> <<>>]
        ELSE IF IsFile(TipTree, path)
        THEN [status |-> 200, kind |-> "file",
              sha |-> BlobSha(TipTree[path].bytes),
              content |-> Btoa(TipTree[path].bytes) \o <<B64Newline>>]
        ELSE IF IsDir(TipTree, path)
        THEN [status |-> 200, kind |-> "dir", sha |-> NoSha, content |-> <<>>]
        ELSE [status |-> 404, kind |-> "error", sha |-> NoSha, content |-> <<>>]

\* repos.createOrUpdateFileContents({path, content, sha, branch}): the status
\* the remote answers with; 200 stands for created or updated
RemotePutStatus(path, content, sha, fault) ==
    LET f == RequestFault(fault)
        t == TipTree
    IN  IF f # 0 THEN f
        ELSE IF ~Atob(content).ok THEN 422
        ELSE IF IsDir(t, path) THEN 422
        ELSE IF IsFile(t, path) /\ ~sha.defined THEN 422
        ELSE IF sha # (IF IsFile(t, path) THEN BlobSha(t[path].bytes) ELSE NoSha) THEN 409
        ELSE 200

\* the commit the remote adds for an accepted content update
RemotePutCommit(path, content) ==
    [parent |-> branchRef,
     tree |-> [TipTree EXCEPT ![path] = Blob(Atob(content).bytes)]]


\* git.createTree({base_tree, tree: treeItems}): the base tree with every item
\* laid over it in order; an item with sha: null deletes its path, any other
\* carries inline content (a UTF-8 string)
RECURSIVE Overlay(_, _)
Overlay(tree, items) ==
    IF items = <<>> THEN tree
    ELSE LET it == Head(items)
         IN  Overlay([tree EXCEPT ![it.path] = IF it.del THEN NoEntry
                                                 ELSE Blob(Utf8Encode(it.content))],
                     Tail(items))

\* git.updateRef({ref, sha}) without force: a fast-forward is accepted; for a
\* ref that moved the outcome depends on the remote (accept: it takes the
\* update, history diverges; otherwise it answers 422)
RemoteUpdateRefAccepted(newSha, accept) ==
    IsAncestor(branchRef, newSha) \/ accept

(***************************************************************************)
(* GitHubService                                                           *)
(***************************************************************************)
NoArg == [op |-> "", path |-> "", content |-> <<>>, items |-> <<>>]
NoLoc == [sha |-> NoSha, latestCommitSha |-> 0, baseTreeSha |-> EmptyTree,
          treeSha |-> EmptyTree, newCommitSha |-> 0]
NoUrl == <<>>

Returned(op, text, flag, url) ==
    [op |-> op, ok |-> TRUE, status |-> 0, msg |-> "", text |-> text,
     flag |-> flag, url |-> url]
\* an exception: status is the error's `status` (0: it has none)
Threw(op, status, msg) ==
    [op |-> op, ok |-> FALSE, status |-> status, msg |-> msg, text |-> <<>>,
     flag |-> FALSE, url |-> NoUrl]
\* the operation in flight has not ended yet
Pending == Returned("", <<>>, FALSE, NoUrl)
ThrewHttp(op, st) == Threw(op, st, HttpError(st).msg)
NotAuthenticated(op) == Threw(op, 0, "Not authenticated")

ApiCall(api, path, sha) == [api |-> api, path |-> path, sha |-> sha]

\* isAuthenticated(): !!this.octokit
IsAuthenticated == octokit.set
\* getUser()
GetUser == user

\* a service whose operations do not check for a client
GuardMissing == TRUE

\* the guard every data operation starts with
GuardPasses == octokit.set

\* authenticate(token), up to the await: the client is stored, then the
\* request for the user is sent
Authenticate(token) ==
    /\ pc = "idle"
    /\ octokit' = Client(token)
    /\ authCalled' = TRUE
    /\ pc' = "auth"
    /\ UNCHANGED <<arg, loc>>
    /\ apiLog' = <<ApiCall("users.getAuthenticated", "", NoSha)>>
    /\ result' = Pending
    /\ UNCHANGED <<commits, branchRef, repos, user, authSucceeded>>
    /\ UNCHANGED loaderVars

\* what authenticate stores in this.user once the remote answered
AuthUserAfter(f) == IF f = 0 THEN UserOf(octokit.auth) ELSE user

\* authenticate(token), after the await
AuthenticateReturn(fault) ==
    /\ pc = "auth"
    /\ LET f == RequestFault(fault)
       IN  /\ user' = AuthUserAfter(f)
           /\ authSucceeded' = (authSucceeded \/ f = 0)
           /\ result' = IF f = 0 THEN Returned("authenticate", <<>>, FALSE, NoUrl)
                        ELSE ThrewHttp("authenticate", f)
    /\ pc' = "idle"
    /\ UNCHANGED <<commits, branchRef, repos, octokit, arg, loc, apiLog, authCalled>>
    /\ UNCHANGED loaderVars

\* listRepos()
ListRepos(fault) ==
    /\ pc = "idle"
    /\ IF ~GuardPasses
       THEN /\ result' = NotAuthenticated("listRepos")
            /\ apiLog' = <<>>
       ELSE LET f == RequestFault(fault)
            IN  /\ result' = IF f = 0 THEN Returned("listRepos", <<>>, repos # {}, NoUrl)
                             ELSE ThrewHttp("listRepos", f)
                /\ apiLog' = <<ApiCall("repos.listForAuthenticatedUser", "", NoSha)>>
    /\ UNCHANGED <<commits, branchRef, repos, octokit, user, pc, arg, loc,
                   authCalled, authSucceeded>>
    /\ UNCHANGED loaderVars

\* createRepo(name, isPrivate)
CreateRepo(name, fault) ==
    /\ pc = "idle"
    /\ IF ~GuardPasses
       THEN /\ result' = NotAuthenticated("createRepo")
            /\ apiLog' = <<>>
            /\ repos' = repos
       ELSE LET f == IF RequestFault(fault) # 0 THEN RequestFault(fault)
                     ELSE IF name \in repos THEN 422 ELSE 0
            IN  /\ result' = IF f = 0 THEN Returned("createRepo", <<>>, FALSE, NoUrl)
                             ELSE ThrewHttp("createRepo", f)
                /\ repos' = IF f = 0 THEN repos \cup {name} ELSE repos
                /\ apiLog' = <<ApiCall("repos.createForAuthenticatedUser", name, NoSha)>>
    /\ UNCHANGED <<commits, branchRef, octokit, user, pc, arg, loc,
                   authCalled, authSucceeded>>
    /\ UNCHANGED loaderVars

\* readFile, the try block given the remote's answer: what it returns or throws
ReadFileTry(op, resp) ==
    IF resp.status # 200 THEN ThrewHttp(op, resp.status)
    ELSE IF resp.kind # "file" THEN Threw(op, 0, "Path is a directory, not a file")
    ELSE LET binaryContent == Atob(StripNewlines(resp.content))
         IN  IF ~binaryContent.ok THEN Threw(op, 0, "InvalidCharacterError")
             ELSE LET content == Utf8Decode(binaryContent.bytes)
                  IN  IF ~content.ok THEN Threw(op, 0, "URIError")
                      ELSE Returned(op, content.str, FALSE, NoUrl)

\* a readFile whose catch block throws every error again as it is
ReadFileCatchRethrow(op, r) == r

\* readFile, the catch block: 404 becomes "File not found", anything else is
\* thrown again as it is
ReadFileCatch(op, r) ==
    IF r.ok THEN r
    ELSE IF r.status = 404 THEN Threw(op, 0, "File not found")
    ELSE r

\* readFile(owner, repo, path, branch): how it ends and the API calls it made
GitHubService_readFile(op, path, fault) ==
    IF ~GuardPasses
    THEN [result |-> NotAuthenticated(op), log |-> <<>>]
    ELSE [result |-> ReadFileCatch(op, ReadFileTry(op, RemoteGetContent(path, fault))),
          log |-> <<ApiCall("repos.getContent", path, NoSha)>>]

ReadFile(path, fault) ==
    /\ pc = "idle"
    /\ result' = GitHubService_readFile("readFile", path, fault).result
    /\ apiLog' = GitHubService_readFile("readFile", path, fault).log
    /\ UNCHANGED <<commits, branchRef, repos, octokit, user, pc, arg, loc,
                   authCalled, authSucceeded>>
    /\ UNCHANGED loaderVars


\* a writeFile that drops the hash the lookup returned
LookupShaDropped(resp) == NoSha

\* writeFile: the `sha` it keeps from the lookup's answer (a 200 answer): the
\* object's hash unless the answer is a listing
LookupSha(resp) == IF resp.kind = "file" THEN resp.sha ELSE NoSha

\* writeFile(owner, repo, path, content, message, branch), up to the update
\* call: the guard and the lookup of the current object hash
WriteFileLookup(op, path, content, fault) ==
    /\ pc = "idle"
    /\ IF ~GuardPasses
       THEN /\ result' = NotAuthenticated(op)
            /\ apiLog' = <<>>
            /\ loc' = NoLoc
            /\ pc' = "idle"
       ELSE LET resp == RemoteGetContent(path, fault)
            IN  /\ apiLog' = <<ApiCall("repos.getContent", path, NoSha)>>
                /\ IF resp.status = 200
                   THEN /\ loc' = [NoLoc EXCEPT !.sha = LookupSha(resp)]
                        /\ pc' = "wf_update"
                        /\ result' = Pending
                   ELSE IF resp.status = 404
                   THEN /\ loc' = NoLoc
                        /\ pc' = "wf_update"
                        /\ result' = Pending
                   ELSE /\ loc' = NoLoc
                        /\ pc' = "idle"
                        /\ result' = ThrewHttp(op, resp.status)
    /\ arg' = IF pc' = "idle" THEN NoArg
              ELSE [NoArg EXCEPT !.op = op, !.path = path, !.content = content]
    /\ UNCHANGED <<commits, branchRef, repos, octokit, user, authCalled, authSucceeded>>
    /\ UNCHANGED loaderVars

\* paths writeFile is called with: a file path, or a path that is a directory
WritePaths == TreePaths \cup {d \in DirPaths : IsDir(TipTree, d)}

WriteFile(path, content, fault) == WriteFileLookup("writeFile", path, content, fault)

\* the sha writeFile passes to createOrUpdateFileContents
UpdateSha == loc.sha

\* writeFile, the update call
WriteFileUpdate(fault) ==
    /\ pc = "wf_update"
    /\ LET content == Btoa(Utf8Encode(arg.content))
           st == RemotePutStatus(arg.path, content, UpdateSha, fault)
       IN  /\ apiLog' = Append(apiLog,
                   ApiCall("repos.createOrUpdateFileContents", arg.path, UpdateSha))
           /\ IF st = 200
              THEN /\ Len(commits) < MaxCommits
                   /\ commits' = Append(commits, RemotePutCommit(arg.path, content))
                   /\ branchRef' = Len(commits) + 1
                   /\ result' = Returned(arg.op, <<>>, FALSE, NoUrl)
              ELSE /\ UNCHANGED <<commits, branchRef>>
                   /\ result' = ThrewHttp(arg.op, st)
    /\ pc' = "idle"
    /\ arg' = NoArg
    /\ loc' = NoLoc
    /\ UNCHANGED <<repos, octokit, user, authCalled, authSucceeded>>
    /\ UNCHANGED loaderVars

\* `https://raw.githubusercontent.com/${owner}/${repo}/${branch || 'main'}/${path}`
RawUrl(path) == <<"https://raw.githubusercontent.com", "owner", "repo", "branch", path>>

\* uploadImage(owner, repo, path, file, branch): one create call, no lookup
UploadImage(path, bytes, fault) ==
    /\ pc = "idle"
    /\ IF ~GuardPasses
       THEN /\ result' = NotAuthenticated("uploadImage")
            /\ apiLog' = <<>>
            /\ UNCHANGED <<commits, branchRef>>
       ELSE LET base64Content == Btoa(bytes)
                st == RemotePutStatus(path, base64Content, NoSha, fault)
            IN  /\ apiLog' = <<ApiCall("repos.createOrUpdateFileContents", path, NoSha)>>
                /\ IF st = 200
                   THEN /\ Len(commits) < MaxCommits
                        /\ commits' = Append(commits, RemotePutCommit(path, base64Content))
                        /\ branchRef' = Len(commits) + 1
                        /\ result' = Returned("uploadImage", <<>>, FALSE, RawUrl(path))
                   ELSE /\ UNCHANGED <<commits, branchRef>>
                        /\ result' = ThrewHttp("uploadImage", st)
    /\ UNCHANGED <<repos, octokit, user, pc, arg, loc, authCalled, authSucceeded>>
    /\ UNCHANGED loaderVars

(***************************************************************************)
(* commitMulti(owner, repo, treeItems, message, branch)                    *)
(***************************************************************************)
Item(path, content) == [path |-> path, del |-> FALSE, content |-> content]
Delete(path) == [path |-> path, del |-> TRUE, content |-> <<>>]
ItemLists == { <<Item("course.yaml", <<8364>>), Item("docs/.keep", <<>>)>>,
               <<Delete("course.yaml")>> }

\* a step of commitMulti fails: the error of the call is thrown to the caller
CmThrow(st) ==
    /\ result' = ThrewHttp("commitMulti", st)
    /\ pc' = "idle"
    /\ arg' = NoArg
    /\ loc' = NoLoc
    /\ UNCHANGED <<commits, branchRef>>

\* 1. Get current commit SHA
CommitMulti(items, fault) ==
    /\ pc = "idle"
    /\ IF ~GuardPasses
       THEN /\ result' = NotAuthenticated("commitMulti")
            /\ apiLog' = <<>>
            /\ loc' = NoLoc
            /\ pc' = "idle"
       ELSE /\ apiLog' = <<ApiCall("git.getRef", "", NoSha)>>
            /\ IF RequestFault(fault) # 0
               THEN /\ result' = ThrewHttp("commitMulti", RequestFault(fault))
                    /\ loc' = NoLoc
                    /\ pc' = "idle"
               ELSE /\ loc' = [NoLoc EXCEPT !.latestCommitSha = branchRef]
                    /\ pc' = "cm_getCommit"
                    /\ result' = Pending
    /\ arg' = IF pc' = "idle" THEN NoArg
              ELSE [NoArg EXCEPT !.op = "commitMulti", !.items = items]
    /\ UNCHANGED <<commits, branchRef, repos, octokit, user, authCalled, authSucceeded>>
    /\ UNCHANGED loaderVars

\* 2. Get base tree SHA
CmGetCommit(fault) ==
    /\ pc = "cm_getCommit"
    /\ apiLog' = Append(apiLog, ApiCall("git.getCommit", "", NoSha))
    /\ IF RequestFault(fault) # 0
       THEN CmThrow(RequestFault(fault))
       ELSE /\ loc' = [loc EXCEPT !.baseTreeSha = commits[loc.latestCommitSha].tree]
            /\ pc' = "cm_createTree"
            /\ UNCHANGED <<commits, branchRef, result, arg>>
    /\ UNCHANGED <<repos, octokit, user, authCalled, authSucceeded>>
    /\ UNCHANGED loaderVars

\* a commit built from the first item only
CreatedTreeFirstItem(base, items) == Overlay(base, SubSeq(items, 1, 1))

\* the tree the remote builds for createTree
CreatedTree(base, items) == Overlay(base, items)

\* 3. Create new tree
CmCreateTree(fault) ==
    /\ pc = "cm_createTree"
    /\ apiLog' = Append(apiLog, ApiCall("git.createTree", "", NoSha))
    /\ LET t == CreatedTree(loc.baseTreeSha, arg.items)
           st == RequestFault(fault)
       IN  IF st # 0
           THEN CmThrow(st)
           ELSE /\ loc' = [loc EXCEPT !.treeSha = t]
                /\ pc' = "cm_createCommit"
                /\ UNCHANGED <<commits, branchRef, result, arg>>
    /\ UNCHANGED <<repos, octokit, user, authCalled, authSucceeded>>
    /\ UNCHANGED loaderVars

\* the commit commitMulti asks the remote to create
NewCommit == [parent |-> loc.latestCommitSha, tree |-> loc.treeSha]

\* 4. Create commit
CmCreateCommit(fault) ==
    /\ pc = "cm_createCommit"
    /\ apiLog' = Append(apiLog, ApiCall("git.createCommit", "", NoSha))
    /\ IF RequestFault(fault) # 0
       THEN CmThrow(RequestFault(fault))
       ELSE /\ Len(commits) < MaxCommits
            /\ commits' = Append(commits, NewCommit)
            /\ loc' = [loc EXCEPT !.newCommitSha = Len(commits) + 1]
            /\ pc' = "cm_updateRef"
            /\ UNCHANGED <<branchRef, result, arg>>
    /\ UNCHANGED <<repos, octokit, user, authCalled, authSucceeded>>
    /\ UNCHANGED loaderVars

\* 5. Update Ref
CmUpdateRef(fault, accept) ==
    /\ pc = "cm_updateRef"
    /\ apiLog' = Append(apiLog, ApiCall("git.updateRef", "", NoSha))
    /\ LET st == IF RequestFault(fault) # 0 THEN RequestFault(fault)
                 ELSE IF ~RemoteUpdateRefAccepted(loc.newCommitSha, accept) THEN 422
                 ELSE 0
       IN  IF st # 0
           THEN CmThrow(st)
           ELSE /\ branchRef' = loc.newCommitSha
                /\ result' = Returned("commitMulti", <<>>, FALSE, NoUrl)
                /\ pc' = "idle"
                /\ arg' = NoArg
                /\ loc' = NoLoc
                /\ UNCHANGED commits
    /\ UNCHANGED <<repos, octokit, user, authCalled, authSucceeded>>
    /\ UNCHANGED loaderVars

\* another writer pushes a commit onto the branch
OtherWriterPush(path, entry) ==
    /\ Len(commits) < MaxCommits
    /\ LET t == [TipTree EXCEPT ![path] = entry]
       IN  /\ t # TipTree
           /\ commits' = Append(commits, [parent |-> branchRef, tree |-> t])
    /\ branchRef' = Len(commits) + 1
    /\ UNCHANGED <<repos, octokit, user, pc, arg, loc, result, apiLog,
                   authCalled, authSucceeded>>
    /\ UNCHANGED loaderVars

(***************************************************************************)
(* GitHubFileSystem: every operation goes to the GitHubService it holds,   *)
(* with its owner, repo and branch                                         *)
(***************************************************************************)
\* readFile(path)
GitHubFileSystem_readFile(op, path, fault) == GitHubService_readFile(op, path, fault)

\* an exists that answers true whatever the read did
ExistsIgnoresRead(r) == TRUE

\* exists(path): true when the read returns, false when it throws
ExistsResult(r) == r.ok

FsExists(path, fault) ==
    /\ pc = "idle"
    /\ LET r == GitHubFileSystem_readFile("exists", path, fault)
       IN  /\ result' = Returned("exists", <<>>, ExistsResult(r.result), NoUrl)
           /\ apiLog' = r.log
    /\ UNCHANGED <<commits, branchRef, repos, octokit, user, pc, arg, loc,
                   authCalled, authSucceeded>>
    /\ UNCHANGED loaderVars

\* createDirectory(path): writeFile of an empty `${path}/.keep`
FsCreateDirectory(path, fault) ==
    WriteFileLookup("createDirectory", KeepPath(path), <<>>, fault)

\* listDir(path): always empty
FsListDir(path) ==
    /\ pc = "idle"
    /\ result' = Returned("listDir", <<>>, FALSE, NoUrl)
    /\ apiLog' = <<>>
    /\ UNCHANGED <<commits, branchRef, repos, octokit, user, pc, arg, loc,
                   authCalled, authSucceeded>>
    /\ UNCHANGED loaderVars


(***************************************************************************)
(* Content loader: loadCourseStructure(fs?)                                *)
(***************************************************************************)
NamespacedPath == "src/content/course.yaml"
LegacyPath == "course.yaml"

\* texts a manifest file may hold
YamlTexts == {"title: German A1\nstructure: []",
              "title: German A2\nstructure: []",
              "title: [",
              "",
              "hello"}

\* a JavaScript value that is a string or undefined
Undefined == [defined |-> FALSE, text |-> ""]
Str(t) == [defined |-> TRUE, text |-> t]
\* String(value)
JsString(v) == IF v.defined THEN v.text ELSE "undefined"

Structure(title) == [kind |-> "structure", title |-> title]
\* { title: 'New Course', structure: [] }
DefaultStructure == Structure("New Course")
\* { title: 'Error Loading Course', structure: [] }
ErrorStructure == Structure("Error Loading Course")

\* yaml.load(input): the input is made a string and parsed; a malformed
\* document throws, an empty one gives undefined, a plain word a string
YamlLoad(v) ==
    LET t == JsString(v)
    IN  IF t = "title: German A1\nstructure: []"
        THEN [ok |-> TRUE, value |-> Structure("German A1")]
        ELSE IF t = "title: German A2\nstructure: []"
        THEN [ok |-> TRUE, value |-> Structure("German A2")]
        ELSE IF t = "title: ["
        THEN [ok |-> FALSE, value |-> [kind |-> "YAMLException", title |-> ""]]
        ELSE IF t = ""
        THEN [ok |-> TRUE, value |-> [kind |-> "undefined", title |-> ""]]
        ELSE [ok |-> TRUE, value |-> [kind |-> "string", title |-> t]]

\* what a call on the file-system passed in may answer
Throws == "<throws>"
ExistsAnswers == {"true", "false", Throws}
ReadAnswers == YamlTexts \cup {Throws}

LReturned(v) == [outcome |-> "returned", value |-> v]
LThrew(v) == [outcome |-> "threw", value |-> v]
LNone == [outcome |-> "none", value |-> [kind |-> "", title |-> ""]]
FsCall(call, path, ans) == [call |-> call, path |-> path, ans |-> ans]

\* import.meta.glob('../content/course.yaml', {eager: true}) and the lookup
\* modules['../content/course.yaml']
BundledYamlContent == IF bundled.defined THEN bundled ELSE Undefined

\* the branch without a file-system: parse the bundled manifest
LoadBundledResult ==
    LET r == YamlLoad(BundledYamlContent)
    IN  IF r.ok THEN LReturned(r.value) ELSE LThrew(r.value)

\* a catch block that throws the error on
LoadCatchRethrow == LThrew([kind |-> "Error", title |-> ""])

\* the catch block of the file-system branch
LoadCatch == LReturned(ErrorStructure)

\* loadCourseStructure(fs) is called
LoadCourseStructure(fsGiven) ==
    /\ lpc \in {"idle", "done"}
    /\ lfs' = fsGiven
    /\ ltrace' = <<>>
    /\ lcontent' = Undefined
    /\ IF fsGiven
       THEN /\ lpc' = "exists_namespaced"
            /\ lresult' = LNone
       ELSE /\ lpc' = "done"
            /\ lresult' = LoadBundledResult
    /\ UNCHANGED bundled
    /\ UNCHANGED ghVars

\* a loader that reads the legacy path whichever probe answered true
AfterExistsReadsLegacy(path, ans) ==
    IF ans = "true" THEN "read_legacy"
    ELSE (IF path = NamespacedPath THEN "exists_legacy" ELSE "done")

\* where loadCourseStructure goes after `await fs.exists(path)` answered
AfterExists(path, ans) ==
    IF ans = "true"
    THEN (IF path = NamespacedPath THEN "read_namespaced" ELSE "read_legacy")
    ELSE (IF path = NamespacedPath THEN "exists_legacy" ELSE "done")

\* if (await fs.exists(path))
LoadExists(path, ans) ==
    /\ lpc = (IF path = NamespacedPath THEN "exists_namespaced" ELSE "exists_legacy")
    /\ ltrace' = Append(ltrace, FsCall("exists", path, ans))
    /\ IF ans = Throws
       THEN /\ lpc' = "done"
            /\ lresult' = LoadCatch
       ELSE /\ lpc' = AfterExists(path, ans)
            /\ lresult' = IF AfterExists(path, ans) = "done"
                          THEN LReturned(DefaultStructure) ELSE lresult
    /\ UNCHANGED <<lfs, bundled, lcontent>>
    /\ UNCHANGED ghVars

\* const content = await fs.readFile(path); return yaml.load(content)
LoadRead(path, ans) ==
    /\ lpc = (IF path = NamespacedPath THEN "read_namespaced" ELSE "read_legacy")
    /\ ltrace' = Append(ltrace, FsCall("readFile", path, ans))
    /\ lpc' = "done"
    /\ IF ans = Throws
       THEN /\ lcontent' = lcontent
            /\ lresult' = LoadCatch
       ELSE /\ lcontent' = Str(ans)
            /\ lresult' = IF YamlLoad(Str(ans)).ok
                          THEN LReturned(YamlLoad(Str(ans)).value)
                          ELSE LoadCatch
    /\ UNCHANGED <<lfs, bundled>>
    /\ UNCHANGED ghVars

(***************************************************************************)
(* Specifications                                                          *)
(***************************************************************************)
GhInit ==
    /\ \E t \in InitTrees : commits = <<[parent |-> 0, tree |-> t]>>
    /\ branchRef = 1
    /\ repos = {}
    /\ octokit = NoClient
    /\ user = NoUser
    /\ pc = "idle"
    /\ arg = NoArg
    /\ loc = NoLoc
    /\ result = Pending
    /\ apiLog = <<>>
    /\ authCalled = FALSE
    /\ authSucceeded = FALSE

LoaderIdle ==
    /\ lpc = "idle"
    /\ lfs = FALSE
    /\ lcontent = Undefined
    /\ ltrace = <<>>
    /\ lresult = LNone

Init ==
    /\ GhInit
    /\ LoaderIdle
    /\ bundled = Undefined

Next ==
    \/ \E token \in Tokens : Authenticate(token)
    \/ \E fault \in Faults : AuthenticateReturn(fault)
    \/ \E fault \in Faults : ListRepos(fault)
    \/ \E name \in RepoNames, fault \in Faults : CreateRepo(name, fault)
    \/ \E path \in Paths, fault \in Faults : ReadFile(path, fault)
    \/ \E path \in WritePaths, content \in Contents, fault \in Faults :
          WriteFile(path, content, fault)
    \/ \E fault \in Faults : WriteFileUpdate(fault)
    \/ \E path \in TreePaths, bytes \in ImageBytes, fault \in Faults :
          UploadImage(path, bytes, fault)
    \/ \E items \in ItemLists, fault \in Faults : CommitMulti(items, fault)
    \/ \E fault \in Faults : CmGetCommit(fault)
    \/ \E fault \in Faults : CmCreateTree(fault)
    \/ \E fault \in Faults : CmCreateCommit(fault)
    \/ \E fault \in Faults, accept \in BOOLEAN : CmUpdateRef(fault, accept)
    \/ \E path \in Paths, fault \in Faults : FsExists(path, fault)
    \/ \E path \in DirPaths, fault \in Faults : FsCreateDirectory(path, fault)
    \/ \E path \in DirPaths : FsListDir(path)
    \/ \E path \in OtherPaths, b \in OtherBlobs : OtherWriterPush(path, Blob(b))
    \/ \E path \in OtherPaths : OtherWriterPush(path, NoEntry)

Spec == Init /\ [][Next]_vars

LoaderInit ==
    /\ GhInit
    /\ LoaderIdle
    /\ bundled \in {Undefined} \cup {Str(t) : t \in YamlTexts}

LoaderNext ==
    \/ \E fsGiven \in BOOLEAN : LoadCourseStructure(fsGiven)
    \/ \E path \in {NamespacedPath, LegacyPath}, ans \in ExistsAnswers :
          LoadExists(path, ans)
    \/ \E path \in {NamespacedPath, LegacyPath}, ans \in ReadAnswers :
          LoadRead(path, ans)

LoaderSpec == LoaderInit /\ [][LoaderNext]_vars


(***************************************************************************)
(* Properties                                                              *)
(***************************************************************************)
\* a data operation of GitHubService is called
DataOperation ==
    \/ \E fault \in Faults : ListRepos(fault)
    \/ \E name \in RepoNames, fault \in Faults : CreateRepo(name, fault)
    \/ \E path \in Paths, fault \in Faults : ReadFile(path, fault)
    \/ \E path \in WritePaths, content \in Contents, fault \in Faults :
          WriteFile(path, content, fault)
    \/ \E path \in TreePaths, bytes \in ImageBytes, fault \in Faults :
          UploadImage(path, bytes, fault)
    \/ \E items \in ItemLists, fault \in Faults : CommitMulti(items, fault)

DataOps == {"listRepos", "createRepo", "readFile", "writeFile", "uploadImage",
            "commitMulti"}

\* C1: while authenticate has never been called, every data operation
\* (listRepos, createRepo, readFile, writeFile, uploadImage, commitMulti) ends
\* at once with the error "Not authenticated", issues no call to the remote
\* API and leaves the remote state as it is.
C1_UnauthenticatedOperationsFail ==
    [][(~authCalled /\ DataOperation) =>
          /\ \E op \in DataOps : result' = NotAuthenticated(op)
          /\ apiLog' = <<>>
          /\ pc' = "idle"
          /\ UNCHANGED <<commits, branchRef, repos>>]_vars

C1_Witness ==
    /\ ~authCalled
    /\ result = NotAuthenticated("commitMulti")
    /\ apiLog = <<>>

\* C2: the hash writeFile keeps from its lookup is the hash of the file object
\* the remote holds at the path on the branch, and no hash when the remote
\* holds no object there (the lookup answers 404); the update call that
\* follows carries exactly that hash (or none).
C2_UpdateCarriesLookedUpHash ==
    [][/\ (pc = "idle" /\ pc' = "wf_update") =>
             /\ IsFile(TipTree, arg'.path) =>
                    loc'.sha = BlobSha(TipTree[arg'.path].bytes)
             /\ (~IsFile(TipTree, arg'.path) /\ ~IsDir(TipTree, arg'.path)) =>
                    loc'.sha = NoSha
       /\ (pc = "wf_update" /\ pc' = "idle") =>
             /\ Len(apiLog') = 2
             /\ apiLog'[2] = ApiCall("repos.createOrUpdateFileContents", arg.path, loc.sha)
      ]_vars

C2_Witness ==
    /\ pc = "idle"
    /\ result.op = "writeFile"
    /\ result.ok
    /\ Len(apiLog) = 2
    /\ apiLog[2].api = "repos.createOrUpdateFileContents"
    /\ apiLog[2].sha.defined

\* C3: readFile, past its guard, throws "File not found" when the remote
\* answers 404 for the path, "Path is a directory, not a file" when the path
\* is a listing, and the remote's own error, unchanged, for any other remote
\* failure; the three are pairwise different; it returns content only when
\* the remote returned a file object.
C3_ReadFileOutcomes ==
    [][\A path \in Paths, fault \in Faults :
          (result'.op = "readFile" /\ GuardPasses /\ ReadFile(path, fault)) =>
             LET f == RequestFault(fault)
                 absent == ~IsFile(TipTree, path) /\ ~IsDir(TipTree, path)
             IN  /\ (f = 0 /\ absent) =>
                        result' = Threw("readFile", 0, "File not found")
                 /\ (f = 0 /\ IsDir(TipTree, path)) =>
                        result' = Threw("readFile", 0, "Path is a directory, not a file")
                 /\ f # 0 =>
                        /\ result' = Threw("readFile", f, HttpError(f).msg)
                        /\ result'.msg \notin {"File not found",
                                               "Path is a directory, not a file"}
                 /\ result'.ok => (f = 0 /\ IsFile(TipTree, path))
      ]_vars

C3_Witness ==
    /\ result = Threw("readFile", 0, "Path is a directory, not a file")
    /\ IsDir(TipTree, "docs")
    /\ apiLog = <<ApiCall("repos.getContent", "docs", NoSha)>>

\* C4: exists(path) never throws; it returns true only when a readFile of the
\* same path succeeds on the state it looked at, and false whenever the read
\* under it fails: unauthenticated, transport or credential error, not found,
\* a directory, or content that does not decode.
C4_ExistsFollowsRead ==
    [][\A path \in Paths, fault \in Faults :
          (result'.op = "exists" /\ FsExists(path, fault)) =>
             /\ result'.ok
             /\ result'.op = "exists"
             /\ result'.flag => GitHubService_readFile("readFile", path, "none").result.ok
             /\ (\/ ~IsAuthenticated
                 \/ RequestFault(fault) # 0
                 \/ ~IsFile(TipTree, path)
                 \/ ~Utf8Decode(TipTree[path].bytes).ok) => ~result'.flag
             /\ (/\ IsAuthenticated
                 /\ RequestFault(fault) = 0
                 /\ IsFile(TipTree, path)
                 /\ Utf8Decode(TipTree[path].bytes).ok) => result'.flag
      ]_vars

C4_Witness ==
    /\ result.op = "exists"
    /\ result.ok
    /\ ~result.flag
    /\ IsAuthenticated
    /\ apiLog = <<ApiCall("repos.getContent", "docs", NoSha)>>
    /\ IsDir(TipTree, "docs")

\* every supplied item shows in the tree
ItemsReflected(tree, items) ==
    \A i \in 1..Len(items) :
        tree[items[i].path] = IF items[i].del THEN NoEntry
                              ELSE Blob(Utf8Encode(items[i].content))

\* a step of commitMulti
CommitMultiStep ==
    \/ \E items \in ItemLists, fault \in Faults : CommitMulti(items, fault)
    \/ \E fault \in Faults : CmGetCommit(fault)
    \/ \E fault \in Faults : CmCreateTree(fault)
    \/ \E fault \in Faults : CmCreateCommit(fault)
    \/ \E fault \in Faults, accept \in BOOLEAN : CmUpdateRef(fault, accept)

\* C5: whenever commitMulti completes, the branch tip is a commit this call
\* created, whose sole parent is the tip the branch had just before and
\* whose tree is that tip's tree overlaid with the supplied items, also when
\* another writer moved the branch between the steps.
C5_TipIsOneCommitOnPriorTip ==
    [][((\E fault \in Faults, accept \in BOOLEAN : CmUpdateRef(fault, accept))
          /\ result'.ok) =>
            /\ branchRef' = loc.newCommitSha
            /\ commits'[branchRef'].parent = branchRef
            /\ commits'[branchRef'].tree = Overlay(commits[branchRef].tree, arg.items)
      ]_vars

\* C9: no step of commitMulti moves the branch ref except a successful last
\* step, and that one sets it to a commit whose tree shows every supplied
\* item; a call that fails at any step leaves the ref where it was.
C9_CommitMultiAllOrNothing ==
    [][CommitMultiStep =>
          \/ branchRef' = branchRef
          \/ /\ pc = "cm_updateRef"
             /\ result' = Returned("commitMulti", <<>>, FALSE, NoUrl)
             /\ ItemsReflected(commits'[branchRef'].tree, arg.items)
      ]_vars

C9_Witness ==
    /\ pc = "idle"
    /\ result.op = "commitMulti"
    /\ ~result.ok
    /\ Len(apiLog) = 5
    /\ apiLog[5].api = "git.updateRef"
    /\ Len(commits) = 2
    /\ branchRef = 1

\* C10: once an authenticate call has ended, isAuthenticated() is true only
\* if some authenticate call returned a user; after nothing but failed calls
\* the service is unauthenticated and getUser() is null.
C10_AuthenticatedOnlyAfterSuccess ==
    (pc = "idle" /\ ~authSucceeded) => (~IsAuthenticated /\ ~GetUser.set)

(***************************************************************************)
(* Properties of loadCourseStructure                                       *)
(***************************************************************************)
\* loadCourseStructure(fs) has returned or thrown
LoadDone == lpc = "done"

\* some call on the file-system threw, or the text read does not parse
SomeStepThrew ==
    \E i \in 1..Len(ltrace) :
        \/ ltrace[i].ans = Throws
        \/ ltrace[i].call = "readFile" /\ ~YamlLoad(Str(ltrace[i].ans)).ok

BothProbesAbsent ==
    ltrace = <<FsCall("exists", NamespacedPath, "false"),
               FsCall("exists", LegacyPath, "false")>>

\* C7: called with a file-system, loadCourseStructure never throws: when both
\* probes answer false it returns the default structure, and when an exists,
\* readFile or parse step throws it returns the error structure.
C7_LoaderNeverThrows ==
    (lfs /\ LoadDone) =>
      /\ lresult.outcome = "returned"
      /\ BothProbesAbsent => lresult = LReturned(DefaultStructure)
      /\ SomeStepThrew => lresult = LReturned(ErrorStructure)

C7_Witness ==
    /\ lfs
    /\ LoadDone
    /\ ltrace = <<FsCall("exists", NamespacedPath, "false"),
                  FsCall("exists", LegacyPath, "true"),
                  FsCall("readFile", LegacyPath, "title: [")>>
    /\ lresult = LReturned(ErrorStructure)

\* C8: called with no file-system while no manifest is bundled,
\* loadCourseStructure returns the default structure and does not throw.
C8_NoBundledManifestGivesDefault ==
    (~lfs /\ LoadDone /\ ~bundled.defined) => lresult = LReturned(DefaultStructure)

====
